---- MODULE Spec2Model ----
(***************************************************************************)
(* A model of package alice (src/chain.go): Chain, an ordered list of      *)
(* middleware constructors, its derivation operations New / Append /       *)
(* Extend, its materialisation ThenWithContext / ThenFuncWithContext into  *)
(* a ContextAdapter, and the adapter's ServeHTTP.                          *)
(*                                                                         *)
(* Go slices are modelled as headers (array, offset, length, capacity)     *)
(* over a heap of backing arrays, so that sharing of backing storage is    *)
(* something the model can exhibit.  Interface values keep their dynamic   *)
(* type, so a nil func boxed in a ContextHandler differs from the nil      *)
(* interface.                                                              *)
(***************************************************************************)
EXTENDS Integers, Sequences, FiniteSets, TLC

VARIABLES
    mem,        \* heap: backing array id -> contents (a sequence of constructor values)
    args,       \* the caller's slice last passed as variadic argument (caller keeps it)
    chains,     \* the Chain values the program holds
    origin,     \* history: how each chain was obtained
    adapters,   \* the *ContextAdapter values the program holds
    made,       \* history: how each adapter was obtained
    calls,      \* history: every constructor invocation so far, in order
    status,     \* "running", "fatal" (log.Fatalf -> os.Exit) or "panic"
    fatalBy,    \* history: the exported method whose call ended in log.Fatalf
    pc,         \* the request: "idle", "serving" (ServeHTTP never returned) or "done"
    cur,        \* the request: adapter, arguments given, the call ServeHTTP made
    log         \* the handlers the request has entered, in order

vars == <<mem, args, chains, origin, adapters, made, calls, status, fatalBy, pc, cur, log>>

----------------------------------------------------------------------------
\* Bounds of the model.

\* Longest argument list a caller passes to New or Append.
MaxArgs == 2
\* Constructor slots the chains hold together (the program's memory).
MaxSlots == 5
\* Chains and adapters the program holds together; all of them may be chains,
\* all but one adapters.
MaxObjects == 3
MaxChains == MaxObjects
MaxAdapters == MaxObjects - 1

\* The middleware constructors the caller owns (m1, m2); NilCons is the zero value
\* of type Constructor, which make() fills a fresh slice with.
Constructors == {1, 2}
NilCons == 0
\* context.Context values.
Contexts == {"ctx1", "ctx2"}
NilCtx == "nil"
\* The requests that arrive, each with the response writer of its own.
Arrivals == {[rw |-> "rw1", req |-> "req1"], [rw |-> "rw2", req |-> "req2"]}
\* Terminal handler objects and terminal functions; NilFunc is the nil func value.
HandlerObjs == {1}
Funcs == {1}
NilFunc == 0

Min(a, b) == IF a <= b THEN a ELSE b

RECURSIVE SeqsUpTo(_, _)
SeqsUpTo(S, n) ==
    IF n = 0 THEN {<<>>}
    ELSE LET shorter == SeqsUpTo(S, n - 1)
         IN  shorter \cup {Append(s, x) : s \in {t \in shorter : Len(t) = n - 1}, x \in S}

ArgLists == SeqsUpTo(Constructors, MaxArgs)

----------------------------------------------------------------------------
\* Go slices over a heap of backing arrays.

NilSlice == [arr |-> 0, off |-> 0, len |-> 0, cap |-> 0]

\* The elements a slice header denotes.
Elems(m, s) == [k \in 1..s.len |-> m[s.arr][s.off + k]]

\* A fresh backing array: the smallest unused id.
FreshArr(m) ==
    CHOOSE a \in 1..(Cardinality(DOMAIN m) + 1) :
        a \notin DOMAIN m /\ \A b \in 1..(a - 1) : b \in DOMAIN m

\* make([]Constructor, n): a fresh zeroed array of exactly n elements.
make(m, n) ==
    LET a == FreshArr(m)
    IN  [mem |-> m @@ (a :> [k \in 1..n |-> NilCons]),
         s   |-> [arr |-> a, off |-> 0, len |-> n, cap |-> n]]

\* copy(dst, src): min(len(dst), len(src)) elements, into dst's array.
copy(m, dst, src) ==
    LET n == Min(dst.len, src.len)
    IN  IF n = 0 THEN m
        ELSE [m EXCEPT ![dst.arr] =
                 [k \in DOMAIN @ |->
                     IF k > dst.off /\ k <= dst.off + n
                     THEN m[src.arr][src.off + (k - dst.off)]
                     ELSE @[k]]]

\* s[k:]
SliceFrom(s, k) ==
    [arr |-> s.arr, off |-> s.off + k, len |-> s.len - k, cap |-> s.cap - k]

\* The capacity append grows to (runtime growslice, small slices).
GrowCap(oldcap, needed) == IF needed > 2 * oldcap THEN needed ELSE 2 * oldcap

\* append(s, t...): in place when the capacity allows, else into a fresh array.
\* Appending nothing returns s itself (nil stays nil).
append(m, s, t) ==
    IF t.len = 0 THEN [mem |-> m, s |-> s]
    ELSE IF s.len + t.len <= s.cap
    THEN [mem |-> copy(m, [arr |-> s.arr, off |-> s.off + s.len,
                           len |-> t.len, cap |-> s.cap - s.len], t),
          s   |-> [s EXCEPT !.len = s.len + t.len]]
    ELSE LET nc == GrowCap(s.cap, s.len + t.len)
             a  == FreshArr(m)
             old == Elems(m, s)
             new == Elems(m, t)
         IN  [mem |-> m @@ (a :> [k \in 1..nc |->
                                    IF k <= s.len THEN old[k]
                                    ELSE IF k <= s.len + t.len THEN new[k - s.len]
                                    ELSE NilCons]),
              s   |-> [arr |-> a, off |-> 0, len |-> s.len + t.len, cap |-> nc]]

----------------------------------------------------------------------------
\* Chain: New, Append, Extend.

\* New with the copy left out: the chain keeps the caller's slice.
New_NoCopy(m, constructors) ==
    [mem |-> m, c |-> [constructors |-> constructors]]

\* func New(constructors ...Constructor) Chain
New(m, constructors) ==
    LET c == [constructors |-> NilSlice]
        r == append(m, c.constructors, constructors)
    IN  [mem |-> r.mem, c |-> [constructors |-> r.s]]

\* Append with the first copy's operands exchanged: it writes the fresh zeroes
\* over the receiver.
Chain_Append_SwappedCopy(m, c, constructors) ==
    LET mk == make(m, c.constructors.len + constructors.len)
        m1 == copy(mk.mem, c.constructors, mk.s)
        m2 == copy(m1, SliceFrom(mk.s, c.constructors.len), constructors)
    IN  New(m2, mk.s)

\* Append with the second copy's offset left out: the arguments land on the
\* receiver's part.
Chain_Append_NoOffset(m, c, constructors) ==
    LET mk == make(m, c.constructors.len + constructors.len)
        m1 == copy(mk.mem, mk.s, c.constructors)
        m2 == copy(m1, mk.s, constructors)
    IN  New(m2, mk.s)

\* func (c Chain) Append(constructors ...Constructor) Chain
Chain_Append(m, c, constructors) ==
    LET mk == make(m, c.constructors.len + constructors.len)
        m1 == copy(mk.mem, mk.s, c.constructors)
        m2 == copy(m1, SliceFrom(mk.s, c.constructors.len), constructors)
    IN  New(m2, mk.s)

\* Extend with receiver and argument exchanged.
Chain_Extend_Swapped(m, c, chain) == Chain_Append(m, chain, c.constructors)

\* func (c Chain) Extend(chain Chain) Chain
Chain_Extend(m, c, chain) == Chain_Append(m, c, chain.constructors)

\* The constructor sequence chain number i holds.
ChainSeq(i) == Elems(mem, chains[i].constructors)

----------------------------------------------------------------------------
\* ContextHandler values, middleware, ContextAdapter.

\* A ContextHandler interface value: the middleware layers wrapped around a
\* terminal, outermost first, each layer the instance one constructor invocation
\* produced.  kind "nil" with no layers is the nil interface; kind "func" is a
\* ContextHandlerFunc (id NilFunc: a nil func inside a non-nil interface).
NilHandler == [layers |-> <<>>, term |-> [kind |-> "nil", id |-> 0]]
ObjHandler(k) == [layers |-> <<>>, term |-> [kind |-> "obj", id |-> k]]

\* ContextHandlerFunc(fn) passed where a ContextHandler is expected: the func
\* value boxed in the interface.
ContextHandlerFunc(fn) == [layers |-> <<>>, term |-> [kind |-> "func", id |-> fn]]

\* h == nil, for an interface value h.
IsNil(h) == h.layers = <<>> /\ h.term.kind = "nil"

\* A constructor called on inner: a fresh middleware instance wrapping inner.
Invoke(f, inst, inner) ==
    [layers |-> <<[cons |-> f, inst |-> inst]>> \o inner.layers, term |-> inner.term]

\* func NewContextAdapter(c context.Context, handler ContextHandler) *ContextAdapter
NewContextAdapter(c, handler) == [ctx |-> c, handler |-> handler]

NoAdapter == [ctx |-> NilCtx, handler |-> NilHandler]

\* final = c.constructors[i](final), for i running through idxs; n counts the
\* constructor invocations made before, invoked lists the ones made here.
RECURSIVE Loop(_, _, _, _, _)
Loop(cons, idxs, final, n, invoked) ==
    IF idxs = <<>> THEN [final |-> final, invoked |-> invoked, panic |-> FALSE]
    ELSE LET f == cons[Head(idxs)]
         IN  IF f = NilCons
             THEN [final |-> final, invoked |-> invoked, panic |-> TRUE]
             ELSE Loop(cons, Tail(idxs), Invoke(f, n + 1, final), n + 1,
                       Append(invoked, f))

\* The loop running first to last.
Compose_Forward(cons, h, n) ==
    Loop(cons, [k \in 1..Len(cons) |-> k], h, n, <<>>)

\* The loop stopping at i > 0: the first constructor is never applied.
Compose_SkipFirst(cons, h, n) ==
    Loop(cons, [k \in 1..(Len(cons) - 1) |-> Len(cons) + 1 - k], h, n, <<>>)

\* The loop calling every constructor on h instead of final: only the first
\* constructor's layer is kept.
Compose_WrapTerminal(cons, h, n) ==
    LET r == Loop(cons, [k \in 1..Len(cons) |-> Len(cons) + 1 - k], h, n, <<>>)
    IN  IF Len(cons) = 0 \/ r.panic THEN r
        ELSE [r EXCEPT !.final = Invoke(cons[1], n + Len(cons), h)]

\* for i := len(c.constructors) - 1; i >= 0; i-- { final = c.constructors[i](final) }
Compose(cons, h, n) ==
    Loop(cons, [k \in 1..Len(cons) |-> Len(cons) + 1 - k], h, n, <<>>)

\* ThenWithContext carrying on after the nil check, with nil as terminal.
Chain_ThenWithContext_NoFatal(m, n, c, cnx, h) ==
    LET r == Compose(Elems(m, c.constructors), h, n)
    IN  [fatal |-> FALSE, panic |-> r.panic, invoked |-> r.invoked,
         adapter |-> NewContextAdapter(cnx, r.final)]

\* func (c Chain) ThenWithContext(cnx context.Context, h ContextHandler) *ContextAdapter
\* log.Fatalf ends the process: nothing after it runs, nothing is returned.
Chain_ThenWithContext(m, n, c, cnx, h) ==
    IF IsNil(h)
    THEN [fatal |-> TRUE, panic |-> FALSE, invoked |-> <<>>, adapter |-> NoAdapter]
    ELSE LET r == Compose(Elems(m, c.constructors), h, n)
         IN  [fatal |-> FALSE, panic |-> r.panic, invoked |-> r.invoked,
              adapter |-> NewContextAdapter(cnx, r.final)]

\* func (c Chain) ThenFuncWithContext(cnx context.Context, fn ContextHandlerFunc) *ContextAdapter
Chain_ThenFuncWithContext(m, n, c, cnx, fn) ==
    IF fn = NilFunc
    THEN Chain_ThenWithContext(m, n, c, cnx, NilHandler)
    ELSE Chain_ThenWithContext(m, n, c, cnx, ContextHandlerFunc(fn))

\* ServeHTTP passing no context on.
ContextAdapter_ServeHTTP_NoCtx(ca, rw, req) ==
    [handler |-> ca.handler, ctx |-> NilCtx, rw |-> rw, req |-> req]

\* func (ca *ContextAdapter) ServeHTTP(rw, req): the one call it makes,
\* ca.handler.ServeHTTPContext(ca.ctx, rw, req).
ContextAdapter_ServeHTTP(ca, rw, req) ==
    [handler |-> ca.handler, ctx |-> ca.ctx, rw |-> rw, req |-> req]

NoCall == [handler |-> NilHandler, ctx |-> NilCtx, rw |-> "nil", req |-> "nil"]
NoRequest == [ad |-> 0, rw |-> "nil", req |-> "nil", call |-> NoCall]

\* One entry of the log: handler kind ("mw", "obj", "func"), its identity, and
\* the arguments ServeHTTPContext received.
Entry(kind, id, inst, call) ==
    [kind |-> kind, id |-> id, inst |-> inst,
     ctx |-> call.ctx, rw |-> call.rw, req |-> call.req]

\* func (h ContextHandlerFunc) ServeHTTPContext(ctx, rw, r) { h(ctx, rw, r) }
\* Calling a nil func panics.
ContextHandlerFunc_ServeHTTPContext(fn, call) ==
    [log |-> <<Entry("func", fn, 0, call)>>, panic |-> fn = NilFunc]

\* h.ServeHTTPContext(ctx, rw, req) for an interface value h.  A middleware
\* instance does its own step, then calls its inner handler once with the
\* arguments it received; a terminal object does its step; a method call on the
\* nil interface panics.
RECURSIVE ServeHTTPContext(_, _)
ServeHTTPContext(h, call) ==
    IF h.layers # <<>>
    THEN LET l     == Head(h.layers)
             inner == ServeHTTPContext([h EXCEPT !.layers = Tail(@)], call)
         IN  [log |-> <<Entry("mw", l.cons, l.inst, call)>> \o inner.log,
              panic |-> inner.panic]
    ELSE IF h.term.kind = "func" THEN ContextHandlerFunc_ServeHTTPContext(h.term.id, call)
    ELSE IF h.term.kind = "obj" THEN [log |-> <<Entry("obj", h.term.id, 0, call)>>, panic |-> FALSE]
    ELSE [log |-> <<>>, panic |-> TRUE]

----------------------------------------------------------------------------
\* The program.

\* Backing arrays still referenced; the others are garbage.
Live(cs, a) == ({cs[i].constructors.arr : i \in 1..Len(cs)} \cup {a.arr}) \ {0}
Collect(m, cs, a) == [x \in (DOMAIN m \cap Live(cs, a)) |-> m[x]]

\* The caller's own slice holding xs (nil for no arguments).
CallerSlice(m, xs) ==
    IF xs = <<>> THEN [mem |-> m, s |-> NilSlice]
    ELSE LET a == FreshArr(m)
         IN  [mem |-> m @@ (a :> xs),
              s   |-> [arr |-> a, off |-> 0, len |-> Len(xs), cap |-> Len(xs)]]

Init ==
    /\ mem = <<>>
    /\ args = NilSlice
    /\ chains = <<>>
    /\ origin = <<>>
    /\ adapters = <<>>
    /\ made = <<>>
    /\ calls = <<>>
    /\ status = "running"
    /\ fatalBy = "none"
    /\ pc = "idle"
    /\ cur = NoRequest
    /\ log = <<>>

Ready == status = "running" /\ pc = "idle"
Slots == LET n[i \in 0..Len(chains)] ==
                 IF i = 0 THEN 0 ELSE n[i - 1] + chains[i].constructors.len
         IN  n[Len(chains)]
RoomForChain(k) ==
    /\ Len(chains) < MaxChains
    /\ Len(chains) + Len(adapters) < MaxObjects
    /\ Slots + k <= MaxSlots
RoomForAdapter == Len(adapters) < MaxAdapters /\ Len(chains) + Len(adapters) < MaxObjects

\* The program keeps the chain r.c a call returned; a is the caller's argument
\* slice from now on, o the chain's history.
Keep(r, a, o) ==
    /\ chains' = Append(chains, r.c)
    /\ args' = a
    /\ mem' = Collect(r.mem, Append(chains, r.c), a)
    /\ origin' = Append(origin, o)
    /\ UNCHANGED <<adapters, made, calls, status, fatalBy, pc, cur, log>>

CallNew(cs, xs) ==
    Keep(New(cs.mem, cs.s), cs.s, [op |-> "New", recv |-> 0, other |-> 0, args |-> xs])

CallAppend(cs, i, xs) ==
    Keep(Chain_Append(cs.mem, chains[i], cs.s), cs.s,
         [op |-> "Append", recv |-> i, other |-> 0, args |-> xs])

\* c := New(xs...), xs in a slice of the caller's own
DoNew(xs) ==
    /\ Ready /\ RoomForChain(Len(xs))
    /\ CallNew(CallerSlice(Collect(mem, chains, NilSlice), xs), xs)

\* c := chains[i].Append(xs...), xs in a slice of the caller's own
DoAppend(i, xs) ==
    /\ Ready /\ RoomForChain(chains[i].constructors.len + Len(xs))
    /\ CallAppend(CallerSlice(Collect(mem, chains, NilSlice), xs), i, xs)

\* c := chains[i].Extend(chains[j])
DoExtend(i, j) ==
    /\ Ready /\ RoomForChain(chains[i].constructors.len + chains[j].constructors.len)
    /\ Keep(Chain_Extend(mem, chains[i], chains[j]), args,
            [op |-> "Extend", recv |-> i, other |-> j, args |-> <<>>])

\* The caller reuses the slice it passed: it overwrites every element,
\* args[k] = nil.
CallerWrite ==
    /\ Ready
    /\ args.len > 0
    /\ Elems(mem, args) # [k \in 1..args.len |-> NilCons]
    /\ mem' = [mem EXCEPT ![args.arr] =
                  [k \in DOMAIN @ |->
                      IF k > args.off /\ k <= args.off + args.len THEN NilCons ELSE @[k]]]
    /\ UNCHANGED <<args, chains, origin, adapters, made, calls, status, fatalBy, pc, cur, log>>

\* What a materialisation leaves behind: the adapter, or the process ended.
Materialise(op, i, cnx, term, r) ==
    /\ calls' = calls \o r.invoked
    /\ IF r.fatal
       THEN /\ status' = "fatal"
            /\ fatalBy' = op
            /\ UNCHANGED <<adapters, made>>
       ELSE IF r.panic
       THEN /\ status' = "panic"
            /\ UNCHANGED <<adapters, made, fatalBy>>
       ELSE /\ adapters' = Append(adapters, r.adapter)
            /\ made' = Append(made, [chain |-> i, ctx |-> cnx, term |-> term,
                                     first |-> Len(calls)])
            /\ UNCHANGED <<status, fatalBy>>
    /\ UNCHANGED <<mem, args, chains, origin, pc, cur, log>>

\* a := chains[i].ThenWithContext(cnx, h)
DoThenWithContext(i, cnx, h) ==
    /\ Ready /\ RoomForAdapter
    /\ Materialise("ThenWithContext", i, cnx, h,
                   Chain_ThenWithContext(mem, Len(calls), chains[i], cnx, h))

\* a := chains[i].ThenFuncWithContext(cnx, fn)
DoThenFuncWithContext(i, cnx, fn) ==
    /\ Ready /\ RoomForAdapter
    /\ Materialise("ThenFuncWithContext", i, cnx, ContextHandlerFunc(fn),
                   Chain_ThenFuncWithContext(mem, Len(calls), chains[i], cnx, fn))

\* The dispatch mechanism calls adapters[a].ServeHTTP(rw, req); the call runs
\* through the composed handler to the terminal, or panics on the way.
ServeHTTP(a, rw, req) ==
    /\ Ready
    /\ LET call == ContextAdapter_ServeHTTP(adapters[a], rw, req)
           r    == ServeHTTPContext(call.handler, call)
       IN  /\ cur' = [ad |-> a, rw |-> rw, req |-> req, call |-> call]
           /\ log' = r.log
           /\ status' = IF r.panic THEN "panic" ELSE status
           /\ pc' = IF r.panic THEN "serving" ELSE "done"
    /\ UNCHANGED <<mem, args, chains, origin, adapters, made, calls, fatalBy>>

\* The dispatch mechanism is done with the request.
Return ==
    /\ status = "running" /\ pc = "done"
    /\ pc' = "idle"
    /\ cur' = NoRequest
    /\ log' = <<>>
    /\ UNCHANGED <<mem, args, chains, origin, adapters, made, calls, status, fatalBy>>

Terminals ==
    {NilHandler} \cup {ObjHandler(k) : k \in HandlerObjs}
                 \cup {ContextHandlerFunc(f) : f \in Funcs \cup {NilFunc}}

Next ==
    \/ \E xs \in ArgLists : DoNew(xs)
    \/ \E i \in 1..Len(chains), xs \in ArgLists : DoAppend(i, xs)
    \/ \E i \in 1..Len(chains), j \in 1..Len(chains) : DoExtend(i, j)
    \/ CallerWrite
    \/ \E i \in 1..Len(chains), cnx \in Contexts, h \in Terminals :
          DoThenWithContext(i, cnx, h)
    \/ \E i \in 1..Len(chains), cnx \in Contexts, fn \in Funcs \cup {NilFunc} :
          DoThenFuncWithContext(i, cnx, fn)
    \/ \E a \in 1..Len(adapters), r \in Arrivals : ServeHTTP(a, r.rw, r.req)
    \/ Return

Spec == Init /\ [][Next]_vars

----------------------------------------------------------------------------
\* What the claims are stated with.

\* The sequence chain number i was created to hold, from the history alone.
RECURSIVE OriginSeq(_)
OriginSeq(i) ==
    LET o == origin[i]
    IN  IF o.op = "New" THEN o.args
        ELSE IF o.op = "Append" THEN OriginSeq(o.recv) \o o.args
        ELSE OriginSeq(o.recv) \o OriginSeq(o.other)

Reverse(s) == [k \in 1..Len(s) |-> s[Len(s) + 1 - k]]

\* The handlers a request through adapter a is to enter, in order: one step per
\* constructor of the chain it was made from, then the terminal given.
ExpectedFlow(a) ==
    LET cs == ChainSeq(made[a].chain)
        t  == made[a].term.term
    IN  [k \in 1..(Len(cs) + 1) |->
            IF k <= Len(cs) THEN <<"mw", cs[k]>> ELSE <<t.kind, t.id>>]

Flow(l) == [k \in 1..Len(l) |-> <<l[k].kind, l[k].id>>]

\* The step creates a chain / an adapter.
ChainCreated == Len(chains') = Len(chains) + 1
AdapterCreated == Len(adapters') = Len(adapters) + 1

\* The middleware instances adapter a's handler is made of.
Instances(a) == {adapters[a].handler.layers[k].inst : k \in 1..Len(adapters[a].handler.layers)}

----------------------------------------------------------------------------
\* C1: a request dispatched through the adapter ThenWithContext(ctx, h) returned
\* for New(c1..cn) and a non-nil h enters c1's step, then c2's, ..., then cn's,
\* then h, each exactly once and in that order; with n = 0 it enters h alone.
C1_DispatchOrder ==
    pc # "idle" => Flow(log) = ExpectedFlow(cur.ad)

C1_Witness ==
    /\ pc = "done"
    /\ Len(log) = 4
    /\ ChainSeq(made[cur.ad].chain) = <<1, 2, 1>>

\* The same with n = 0: the request reaches h directly.
C1_WitnessEmpty ==
    /\ pc = "done"
    /\ ChainSeq(made[cur.ad].chain) = <<>>
    /\ Flow(log) = <<<<"obj", 1>>>>

\* C2: Append and Extend leave the receiver as it was: its constructor sequence
\* is element for element the one before the call, and materialising it against
\* any terminal composes the same handler as before the call.
C2_ReceiverUntouched ==
    [][(ChainCreated /\ origin'[Len(origin')].op \in {"Append", "Extend"}) =>
          LET i == origin'[Len(origin')].recv
          IN  /\ Elems(mem', chains'[i].constructors) = Elems(mem, chains[i].constructors)
              /\ \A cnx \in Contexts, h \in {ObjHandler(1), ContextHandlerFunc(1)} :
                    Chain_ThenWithContext(mem', 0, chains'[i], cnx, h)
                    = Chain_ThenWithContext(mem, 0, chains[i], cnx, h)]_vars

\* stdChain = New(m1, m2); stdChain.Append(x); then a request through
\* stdChain (dispatch begins only when no other call is under way, so it came
\* after the Append) has finished.
C2_Witness ==
    /\ Len(chains) = 2
    /\ origin[2].op = "Append" /\ origin[2].recv = 1 /\ origin[2].args # <<>>
    /\ ChainSeq(1) = <<1, 2>>
    /\ pc = "done"
    /\ made[cur.ad].chain = 1
    /\ Flow(log) = <<<<"mw", 1>>, <<"mw", 2>>, <<"obj", 1>>>>

\* C3: no two chains share backing storage, nor does a chain share the caller's
\* argument slice: every chain holds, in every reachable state, the sequence it
\* was created to hold, whatever was done later to other chains or written to a
\* slice once passed as argument; so d1 = c.Append(x), d2 = c.Append(y) hold
\* c's sequence followed by x and by y.
C3_NoSharedStorage ==
    /\ \A i \in 1..Len(chains) :
          /\ ChainSeq(i) = OriginSeq(i)
          /\ chains[i].constructors.arr = 0 \/ chains[i].constructors.arr # args.arr
    /\ \A i \in 1..Len(chains), j \in 1..Len(chains) :
          (i # j /\ chains[i].constructors.arr # 0) =>
              chains[i].constructors.arr # chains[j].constructors.arr

\* c non-empty, d1 = c.Append(x), d2 = c.Append(y) with x # y, and the caller has
\* since overwritten the slice it passed as y.
C3_Witness ==
    /\ Len(chains) = 3
    /\ origin[2].op = "Append" /\ origin[2].recv = 1
    /\ origin[3].op = "Append" /\ origin[3].recv = 1
    /\ origin[1].args # <<>>
    /\ origin[2].args = <<2>> /\ origin[3].args = <<1>>
    /\ Elems(mem, args) # origin[3].args

\* C4: c.Append(x1..xk), k >= 0, returns a chain of length n + k holding c's
\* sequence [c1..cn] first, then x1..xk, in order.
C4_AppendResult ==
    [][(ChainCreated /\ origin'[Len(origin')].op = "Append") =>
          LET o   == origin'[Len(origin')]
              old == Elems(mem, chains[o.recv].constructors)
              new == Elems(mem', chains'[Len(chains')].constructors)
          IN  /\ Len(new) = Len(old) + Len(o.args)
              /\ \A k \in 1..Len(old) : new[k] = old[k]
              /\ \A k \in 1..Len(o.args) : new[Len(old) + k] = o.args[k]]_vars

C4_Witness ==
    \E i \in 1..Len(chains) :
        /\ origin[i].op = "Append"
        /\ Len(origin[i].args) = 2
        /\ origin[i].args[1] # origin[i].args[2]
        /\ Len(ChainSeq(origin[i].recv)) = 1
        /\ Len(ChainSeq(i)) = 3

\* C5: a.Extend(b) returns a chain with the constructor sequence a.Append returns
\* when given b's constructors in order as arguments, and modifies neither a nor b.
C5_ExtendIsAppend ==
    [][(ChainCreated /\ origin'[Len(origin')].op = "Extend") =>
          LET o  == origin'[Len(origin')]
              cs == CallerSlice(mem, Elems(mem, chains[o.other].constructors))
              r  == Chain_Append(cs.mem, chains[o.recv], cs.s)
          IN  /\ Elems(mem', chains'[Len(chains')].constructors)
                    = Elems(r.mem, r.c.constructors)
              /\ Elems(mem', chains'[o.recv].constructors)
                    = Elems(mem, chains[o.recv].constructors)
              /\ Elems(mem', chains'[o.other].constructors)
                    = Elems(mem, chains[o.other].constructors)]_vars

C5_Witness ==
    \E i \in 1..Len(chains) :
        /\ origin[i].op = "Extend"
        /\ origin[i].recv # origin[i].other
        /\ ChainSeq(origin[i].recv) # <<>>
        /\ ChainSeq(origin[i].other) # <<>>
        /\ ChainSeq(origin[i].recv) # ChainSeq(origin[i].other)
        /\ Len(ChainSeq(i)) = 2

C6_WitnessThen ==
    /\ status = "fatal"
    /\ fatalBy = "ThenWithContext"
    /\ \E i \in 1..Len(chains) : ChainSeq(i) # <<>>

\* C7: constructors are invoked during materialisation only, each exactly once
\* per materialisation: a ThenWithContext or ThenFuncWithContext that returns an
\* adapter invokes the chain's constructors once each (last to first), and no other
\* step - New, Append, Extend, a failed materialisation, a request's dispatch -
\* invokes any.
C7_InvokedOncePerMaterialisation ==
    [][IF AdapterCreated
       THEN calls' = calls \o Reverse(ChainSeq(made'[Len(made')].chain))
       ELSE calls' = calls]_vars

\* A chain of three has been materialised once and a request dispatched through.
C7_Witness ==
    /\ Len(adapters) = 1
    /\ Len(ChainSeq(made[1].chain)) = 3
    /\ Len(chains) = 2
    /\ pc = "done"
    /\ Len(calls) = 3

\* C8: materialisation leaves the chain as it was and materialisations are
\* independent: every adapter's handler is the chain's constructors, in order,
\* around the terminal given to that call, built from constructor invocations
\* made by that call alone (so two materialisations of a chain of n make 2n
\* invocations and share no middleware instance), and a request through an
\* adapter enters that adapter's instances and terminal only.
C8_MaterialisationsIndependent ==
    /\ \A a \in 1..Len(adapters) :
          LET cs == ChainSeq(made[a].chain)
              h  == adapters[a].handler
          IN  /\ cs = OriginSeq(made[a].chain)
              /\ Len(h.layers) = Len(cs)
              /\ \A k \in 1..Len(cs) :
                    /\ h.layers[k].cons = cs[k]
                    /\ h.layers[k].inst = made[a].first + Len(cs) + 1 - k
                    /\ calls[h.layers[k].inst] = cs[k]
              /\ h.term = made[a].term.term
              /\ made[a].first + Len(cs) <= Len(calls)
    /\ \A a \in 1..Len(adapters), b \in 1..Len(adapters) :
          a # b => Instances(a) \cap Instances(b) = {}
    /\ pc # "idle" =>
          \A k \in 1..Len(log) :
              IF log[k].kind = "mw"
              THEN log[k].inst \in Instances(cur.ad)
              ELSE <<log[k].kind, log[k].id>>
                       = <<made[cur.ad].term.term.kind, made[cur.ad].term.term.id>>

\* One chain of two, materialised against h1 and then against h2; a request
\* through the first adapter has finished.
C8_Witness ==
    /\ Len(adapters) = 2
    /\ made[1].chain = made[2].chain
    /\ Len(ChainSeq(made[1].chain)) = 2
    /\ made[1].term = ObjHandler(1) /\ made[2].term = ContextHandlerFunc(1)
    /\ Len(calls) = 4
    /\ pc = "done" /\ cur.ad = 1

\* C9: the adapter only delegates: it holds, for as long as it exists, the
\* context given at materialisation and the outermost handler composed then;
\* ServeHTTP(rw, req) calls that handler with that context and the same rw and
\* req, the handler is entered exactly once, and every handler down to the
\* terminal receives those same arguments.
C9_AdapterDelegates ==
    /\ \A a \in 1..Len(adapters) :
          /\ adapters[a].ctx = made[a].ctx
          /\ adapters[a].handler =
                 Compose(OriginSeq(made[a].chain), made[a].term, made[a].first).final
    /\ pc # "idle" =>
          /\ cur.call.handler = adapters[cur.ad].handler
          /\ cur.call.ctx = made[cur.ad].ctx
          /\ cur.call.rw = cur.rw /\ cur.call.req = cur.req
          /\ \A k \in 1..Len(log) :
                /\ log[k].ctx = made[cur.ad].ctx
                /\ log[k].rw = cur.rw /\ log[k].req = cur.req
          /\ \A k \in 2..Len(log) :
                <<log[k].kind, log[k].id, log[k].inst>>
                    # <<log[1].kind, log[1].id, log[1].inst>>

C9_Witness ==
    /\ pc = "done"
    /\ Len(adapters) = 2 /\ cur.ad = 2
    /\ made[1].ctx = "ctx1" /\ made[2].ctx = "ctx2"
    /\ cur.rw = "rw2" /\ cur.req = "req2"
    /\ Len(log) = 3

\* c.ThenFuncWithContext(ctx, fn) and c.ThenWithContext(ctx, ContextHandlerFunc(fn))
\* have the same outcome for every fn that is not nil.
FuncVariantEquivalentNonNil ==
    \A i \in 1..Len(chains), cnx \in Contexts, fn \in Funcs :
        Chain_ThenFuncWithContext(mem, Len(calls), chains[i], cnx, fn)
        = Chain_ThenWithContext(mem, Len(calls), chains[i], cnx, ContextHandlerFunc(fn))

\* ThenWithContext(ctx, ContextHandlerFunc(nil)) has returned an adapter, and the
\* first request through it has panicked in the terminal.
NilFuncAdapterPanics ==
    /\ status = "panic"
    /\ pc = "serving"
    /\ made[cur.ad].term = ContextHandlerFunc(NilFunc)

\* C10: c.ThenFuncWithContext(ctx, fn) has the outcome of
\* c.ThenWithContext(ctx, ContextHandlerFunc(fn)) for every chain c, context ctx
\* and function value fn, nil included: the same fatal failure, or the same
\* adapter with the same constructor invocations.
C10_FuncVariantEquivalent ==
    \A i \in 1..Len(chains), cnx \in Contexts, fn \in Funcs \cup {NilFunc} :
        Chain_ThenFuncWithContext(mem, Len(calls), chains[i], cnx, fn)
        = Chain_ThenWithContext(mem, Len(calls), chains[i], cnx, ContextHandlerFunc(fn))

====
